---- MODULE Spec2Model ----
(***************************************************************************)
(* State-machine model of the CoolDice engine (src/main.js): die set       *)
(* rebuild, layout, arena walls, camera framing, the spin / physics roll   *)
(* controller and the per-frame render loop.                               *)
(*                                                                         *)
(* Units.  Lengths are in thousandths of a scene unit (1.2 -> 1200).       *)
(* Time is in milliseconds; the clock has no fixed origin, so a callback   *)
(* keeps now - start (its elapsed time at the latest frame) instead of     *)
(* start.  Rotations about an axis are counted in quarter turns (PI/2).    *)
(* Camera coordinates are lengths divided by                               *)
(* tan(fov/2).  A random draw r = n/M28 is kept as its numerator n, and a  *)
(* quantity a + b*r as the triple (a, b, n).                               *)
(***************************************************************************)
EXTENDS Integers, Sequences, FiniteSets, TLC

VARIABLES
  numDice,        \* appState.numDice
  rollMode,       \* appState.rollMode
  world,          \* TRUE iff the physics engine was loaded (world !== null)
  diceGroup,      \* diceGroup.children: sequence of meshes
  diceBodies,     \* diceBodies: sequence of body ids
  arenaBodies,    \* arenaBodies: sequence of body ids
  worldBodies,    \* world.bodies: sequence of body ids
  body,           \* body id -> rigid body record
  camera,         \* camera.aspect and camera.position
  isRowSpinning,  \* the spinning flag
  raf,            \* animation callbacks waiting for the next frame, in order
  ticked,         \* TRUE once tick has set lastTime
  lastOp,         \* the operation that produced the current state
  fault,          \* TRUE once a frame callback has thrown
  syncWrote,      \* dice whose transform the body sync wrote in the last frame
  spinWrote,      \* dice whose transform a tickSpin wrote in the last frame
  diceColor,      \* appState.diceColor
  pipColor,       \* appState.pipColor
  formNumDice,    \* settingsForm.numDice.value, a sequence of characters
  generators      \* the closures createRandom() returned that are still in use

vars == <<numDice, rollMode, world, diceGroup, diceBodies, arenaBodies,
          worldBodies, body, camera, isRowSpinning, raf, ticked, lastOp,
          fault, syncWrote, spinWrote, diceColor, pipColor, formNumDice,
          generators>>

----------------------------------------------------------------------------
(* Bounds of the model *)

MaxDice == 2          \* die counts used by the interleaving specification
MaxSpins == 2         \* tickSpin callbacks in flight at once
MaxAnims == 1         \* fallback animate callbacks in flight at once
MaxTurns == 1         \* a roll starts only below this many quarter turns

Seeds == {1, 1000}
FrameSteps == {550}
Viewports == {<<800, 600>>, <<600, 800>>}

----------------------------------------------------------------------------
(* Arithmetic helpers *)

RECURSIVE GCD(_, _)
GCD(a, b) == IF b = 0 THEN a ELSE GCD(b, a % b)

Max(a, b) == IF a >= b THEN a ELSE b
Min(a, b) == IF a <= b THEN a ELSE b

\* Math.ceil(Math.sqrt(count)) for count >= 1
CeilSqrt(count) == CHOOSE r \in 1..count : r * r >= count /\ (r - 1) * (r - 1) < count

\* Math.ceil(a / b) for positive integers
CeilDiv(a, b) == (a + b - 1) \div b

\* A reduced fraction <<n, d>> with d > 0
Frac(n, d) == LET g == GCD(n, d) IN <<n \div g, d \div g>>

----------------------------------------------------------------------------
(* createRandom: 32-bit linear congruential generator.  The state is kept  *)
(* as two 16-bit halves <<hi, lo>> so that s * 1664525 + 1013904223 is     *)
(* computed modulo 2^32 without leaving the integer range of the checker.  *)

M28 == 268435455      \* 0xfffffff

SeedState(seed) == <<(seed \div 65536) % 65536, seed % 65536>>

\* the step with the carry out of the low half dropped
RngNextNoCarry(s) ==
  LET lo == s[2] * 26125 + 62303
      hi == s[1] * 26125 + s[2] * 25 + 15470
  IN  <<hi % 65536, lo % 65536>>

RngNext(s) ==
  LET lo == s[2] * 26125 + 62303
      hi == s[1] * 26125 + s[2] * 25 + (lo \div 65536) + 15470
  IN  <<hi % 65536, lo % 65536>>

\* (s & 0xfffffff): the numerator of the value rng() returns
RngOut(s) == (s[1] % 4096) * 65536 + s[2]

\* k calls of the generator from state s: the state reached and the
\* numerators returned
RECURSIVE RngRun(_, _)
RngRun(s, k) ==
  IF k = 0 THEN [state |-> s, out |-> <<>>]
  ELSE LET r == RngRun(s, k - 1)
           t == RngNext(r.state)
       IN  [state |-> t, out |-> Append(r.out, RngOut(t))]

\* the numerators of the first k values returned from state s, computed
\* twelve at a time
RECURSIVE DrawsFrom(_, _)
DrawsFrom(s, k) ==
  IF k <= 12 THEN RngRun(s, k).out
  ELSE LET r == RngRun(s, 12) IN r.out \o DrawsFrom(r.state, k - 12)

createRandom(seed, k) == DrawsFrom(SeedState(seed), k)

\* Math.floor(r * k) for r = n / M28, without forming n * k
FloorScale(n, k) ==
  LET a == M28 \div k
      b == M28 % k
      T(j) == j * a + ((j * b + k - 1) \div k)     \* least n with n*k >= j*M28
      lo == n \div (a + 1)                           \* a <= M28/k < a + 1
      hi == Min(k, n \div a)
  IN  CHOOSE j \in lo..hi : T(j) <= n /\ (j = k \/ n < T(j + 1))

----------------------------------------------------------------------------
(* Numbers that depend on a random draw or on the physics integrator *)

Num(a) == [k |-> "aff", a |-> a, b |-> 0, n |-> 0]

\* a + b * (n / M28)
Aff(a, b, n) ==
  IF n = 0 \/ b = 0 THEN Num(a)
  ELSE IF n = M28 THEN Num(a + b)
  ELSE [k |-> "aff", a |-> a, b |-> b, n |-> n]

\* a value produced by the rigid-body integrator
SimNum == [k |-> "sim", a |-> 0, b |-> 0, n |-> 0]

\* a value produced by the fallback animation's bounce
BounceNum == [k |-> "bounce", a |-> 0, b |-> 0, n |-> 0]

NumVec(x, y, z) == <<Num(x), Num(y), Num(z)>>

----------------------------------------------------------------------------
(* Euler angles.  A component is o + w + sum of f, in quarter turns: w is  *)
(* an integer, f a set of reduced proper fractions <<n, d>> with distinct  *)
(* denominators, and o names an offset that is not a multiple known to the *)
(* model: "body" (converted from a body quaternion) or "anim" (accumulated *)
(* random increments of the fallback animation).                           *)

ZeroRot == [o |-> "none", w |-> 0, f |-> {}]
ZeroEuler == [x |-> ZeroRot, y |-> ZeroRot, z |-> ZeroRot]
BodyRot == [o |-> "body", w |-> 0, f |-> {}]
BodyEuler == [x |-> BodyRot, y |-> BodyRot, z |-> BodyRot]

\* v + n/d for a proper fraction 0 <= n < d
RECURSIVE AddFrac(_, _, _)
AddFrac(v, n, d) ==
  IF n = 0 THEN v
  ELSE LET same == {q \in v.f : q[2] = d} IN
       IF same = {} THEN [v EXCEPT !.f = @ \cup {<<n, d>>}]
       ELSE LET q == CHOOSE q \in same : TRUE
                carry == q[1] >= d - n
                rest == IF carry THEN q[1] - (d - n) ELSE q[1] + n
                r == Frac(rest, d)
            IN  AddFrac([v EXCEPT !.w = @ + (IF carry THEN 1 ELSE 0),
                                  !.f = @ \ {q}], r[1], r[2])

\* q * (n/d) for 0 <= n <= d, as <<whole, numerator>> over d, formed by
\* repeated addition so that no intermediate exceeds 2 * d
RECURSIVE MulFrac(_, _, _)
MulFrac(q, n, d) ==
  IF q = 0 THEN <<0, 0>>
  ELSE IF n = d THEN <<q, 0>>
  ELSE LET p == MulFrac(q - 1, n, d) IN
       IF p[2] >= d - n THEN <<p[1] + 1, p[2] - (d - n)>>
       ELSE <<p[1], p[2] + n>>

\* base + q * (n/d)
RotPlus(base, q, n, d) ==
  LET p == MulFrac(q, n, d)
      r == Frac(p[2], d)
  IN  AddFrac([base EXCEPT !.w = @ + p[1]], r[1], r[2])

----------------------------------------------------------------------------
(* easeOutCubic on a fraction t = <<a, b>> (b > 0) *)

\* Math.min(1, Math.max(0, t))
Clamp01(t) == IF t[1] <= 0 THEN <<0, 1>> ELSE IF t[1] >= t[2] THEN <<1, 1>> ELSE Frac(t[1], t[2])

\* 1 - Math.pow(1 - t, 3) without the clamp
easeOutCubicUnclamped(t) ==
  LET r == t[2] - t[1]
  IN  Frac(t[2] * t[2] * t[2] - r * r * r, t[2] * t[2] * t[2])

\* Math.pow(1 - t, 3), the complement left out
easeOutCubicNoComplement(t) ==
  LET c == Clamp01(t)
      r == c[2] - c[1]
  IN  Frac(r * r * r, c[2] * c[2] * c[2])

easeOutCubic(t) ==
  LET c == Clamp01(t)
      r == c[2] - c[1]
  IN  Frac(c[2] * c[2] * c[2] - r * r * r, c[2] * c[2] * c[2])

----------------------------------------------------------------------------
(* Objects.  An object's identity is <<kind, generation, index>>; a newly  *)
(* created object takes the least generation no live object uses.          *)

NoBody == <<"none", 0, 0>>
GroundId == <<"ground", 0, 0>>

\* the faces numbered in the order of the material slots
FaceOrderSequential == <<1, 2, 3, 4, 5, 6>>

\* createDiceMaterial: the values drawn on +x, -x, +y, -y, +z, -z
FaceOrder == <<1, 6, 2, 5, 3, 4>>

spacing == 1200
RestHeight == 500

\* the state the engine functions read and write
Core == [numDice |-> numDice, rollMode |-> rollMode, world |-> world,
         diceGroup |-> diceGroup, diceBodies |-> diceBodies,
         arenaBodies |-> arenaBodies, worldBodies |-> worldBodies,
         body |-> body, camera |-> camera,
         diceColor |-> diceColor, pipColor |-> pipColor]

SeqRange(s) == {s[i] : i \in 1..Len(s)}

LiveIds(S) ==
  SeqRange(S.diceBodies) \cup SeqRange(S.arenaBodies) \cup SeqRange(S.worldBodies)
    \cup {S.diceGroup[i].id : i \in 1..Len(S.diceGroup)}
    \cup {S.diceGroup[i].body : i \in 1..Len(S.diceGroup)}

FreshGen(S) ==
  LET used == {id[2] : id \in LiveIds(S)}
  IN  CHOOSE g \in 1..(Cardinality(used) + 1) :
        g \notin used /\ \A h \in 1..(g - 1) : h \in used

\* drop the records of bodies nothing refers to any more
Collect(S) ==
  LET live == LiveIds(S) \cap DOMAIN S.body
  IN  [S EXCEPT !.body = [id \in live |-> S.body[id]]]

\* remove every occurrence of the ids in gone from a sequence
Without(s, gone) == SelectSeq(s, LAMBDA id : id \notin gone)

----------------------------------------------------------------------------
(* Rigid bodies *)

IdentityQuat == [k |-> "identity", e |-> NumVec(0, 0, 0)]
SimQuat == [k |-> "sim", e |-> NumVec(0, 0, 0)]
\* quaternion.setFromEuler(x, y, z), angles in thousandths of PI
EulerQuat(x, y, z) == [k |-> "euler", e |-> <<x, y, z>>]

\* new CANNON.Body({ mass }) with one box shape of half extents he
NewBody(mass, he) ==
  [mass |-> mass, he |-> he, pos |-> NumVec(0, 0, 0), vel |-> NumVec(0, 0, 0),
   angVel |-> NumVec(0, 0, 0), quat |-> IdentityQuat, sleep |-> "awake"]

\* the ground plane created with the world
GroundBody ==
  [NewBody(0, <<0, 0, 0>>) EXCEPT !.quat = EulerQuat(Num(-500), Num(0), Num(0))]

FIXED_RADIUS_PERCENT == 12

\* half extent of a die's collision box
DieHalfExtent ==
  LET inset == Max(0, Min(240, FIXED_RADIUS_PERCENT * 5))
  IN  500 - Max(20, (inset * 8) \div 10)

----------------------------------------------------------------------------
(* computeArenaSize / updateArenaBounds *)

\* Math.max(1, diceGroup.children.length || appState.numDice || 1)
DieCount(S) ==
  Max(1, IF Len(S.diceGroup) # 0 THEN Len(S.diceGroup)
         ELSE IF S.numDice # 0 THEN S.numDice ELSE 1)

\* the rows counted with Math.floor in place of Math.ceil
ArenaOfFloorRows(count) ==
  LET perRow == CeilSqrt(count)
      rows == Max(1, count \div perRow)
  IN  [width |-> (perRow - 1) * spacing + 2000,
       depth |-> (rows - 1) * spacing + 2000]

ArenaOf(count) ==
  LET perRow == CeilSqrt(count)
      rows == CeilDiv(count, perRow)
  IN  [width |-> (perRow - 1) * spacing + 2000,
       depth |-> (rows - 1) * spacing + 2000]

computeArenaSize(S) == ArenaOf(DieCount(S))

ArenaMargin == 1500
wallThickness == 300
wallHeight == 3500

\* the four walls with the margin taken off the arena instead of added to it
WallBodiesMarginInward(arena) ==
  LET halfW == arena.width \div 2 - ArenaMargin
      halfD == arena.depth \div 2 - ArenaMargin
      hH == wallHeight \div 2
      hT == wallThickness \div 2
      wall(he, pos) == [NewBody(0, he) EXCEPT !.pos = pos]
  IN  << wall(<<halfW, hH, hT>>, NumVec(0, hH, halfD + hT)),
         wall(<<halfW, hH, hT>>, NumVec(0, hH, 0 - halfD - hT)),
         wall(<<hT, hH, halfD>>, NumVec(halfW + hT, hH, 0)),
         wall(<<hT, hH, halfD>>, NumVec(0 - halfW - hT, hH, 0)) >>

\* the four walls with the -X wall placed at the inner edge of the margin
WallBodiesLopsided(arena) ==
  LET halfW == arena.width \div 2 + ArenaMargin
      halfD == arena.depth \div 2 + ArenaMargin
      hH == wallHeight \div 2
      hT == wallThickness \div 2
      wall(he, pos) == [NewBody(0, he) EXCEPT !.pos = pos]
  IN  << wall(<<halfW, hH, hT>>, NumVec(0, hH, halfD + hT)),
         wall(<<halfW, hH, hT>>, NumVec(0, hH, 0 - halfD - hT)),
         wall(<<hT, hH, halfD>>, NumVec(halfW + hT, hH, 0)),
         wall(<<hT, hH, halfD>>, NumVec(0 - halfW + hT, hH, 0)) >>

\* the four walls built for an arena: +Z, -Z, +X, -X
WallBodies(arena) ==
  LET halfW == arena.width \div 2 + ArenaMargin
      halfD == arena.depth \div 2 + ArenaMargin
      hH == wallHeight \div 2
      hT == wallThickness \div 2
      wall(he, pos) == [NewBody(0, he) EXCEPT !.pos = pos]
  IN  << wall(<<halfW, hH, hT>>, NumVec(0, hH, halfD + hT)),
         wall(<<halfW, hH, hT>>, NumVec(0, hH, 0 - halfD - hT)),
         wall(<<hT, hH, halfD>>, NumVec(halfW + hT, hH, 0)),
         wall(<<hT, hH, halfD>>, NumVec(0 - halfW - hT, hH, 0)) >>

\* the walls rebuilt without removing the old ones
updateArenaBoundsKeepsWalls(S) ==
  IF ~S.world THEN S
  ELSE LET g == FreshGen(S)
           walls == WallBodies(computeArenaSize(S))
           ids == [k \in 1..4 |-> <<"wall", g, k>>]
       IN  [S EXCEPT !.worldBodies = @ \o ids,
                     !.arenaBodies = @ \o ids,
                     !.body = [id \in DOMAIN @ \cup SeqRange(ids) |->
                                IF id \in SeqRange(ids) THEN walls[id[3]]
                                ELSE @[id]]]

updateArenaBounds(S) ==
  IF ~S.world THEN S
  ELSE LET old == SeqRange(S.arenaBodies)
           S1 == [S EXCEPT !.worldBodies = Without(@, old), !.arenaBodies = <<>>]
           g == FreshGen(S1)
           walls == WallBodies(computeArenaSize(S1))
           ids == [k \in 1..4 |-> <<"wall", g, k>>]
           S2 == [S1 EXCEPT !.worldBodies = @ \o ids,
                            !.arenaBodies = ids,
                            !.body = [id \in DOMAIN @ \cup SeqRange(ids) |->
                                       IF id \in SeqRange(ids) THEN walls[id[3]]
                                       ELSE @[id]]]
       IN  Collect(S2)

----------------------------------------------------------------------------
(* positionCamera *)

CameraFov == 45

FracScale(f, a, b) == Frac(f[1] * a, f[2] * b)

\* camera.position for a die count and an aspect ratio aw/ah, in units of
\* 1/tan(fov/2): needed = max(vDist, hDist) * 1.2, elev = needed * 0.9,
\* dist = needed * 1.1, position = (dist * 0.7, elev, dist)
Framing(count, aspect) ==
  LET a == ArenaOf(count)
      fit == Frac(Max(Max(a.width, a.depth) * aspect[1], a.width * aspect[2]),
                  2 * aspect[1])
  IN  << FracScale(fit, 231, 250), FracScale(fit, 27, 25), FracScale(fit, 33, 25) >>

positionCamera(S) ==
  [S EXCEPT !.camera = [aspect |-> @.aspect,
                        position |-> Framing(DieCount(S), @.aspect)]]

----------------------------------------------------------------------------
(* layoutDice *)

\* the grid with the column taken modulo the number of rows
LayoutPosWrapsByRows(count, mode, i) ==
  IF mode = "spin"
    THEN LET startX == 0 - ((count - 1) * spacing) \div 2
         IN  NumVec(startX + (i - 1) * spacing, RestHeight, 0)
    ELSE LET perRow == CeilSqrt(count)
             rows == CeilDiv(count, perRow)
             startX == 0 - ((perRow - 1) * spacing) \div 2
             startZ == 0 - ((rows - 1) * spacing) \div 2
             row == (i - 1) \div perRow
             col == (i - 1) % rows
         IN  NumVec(startX + col * spacing, RestHeight, startZ + row * spacing)

\* the row started at the origin instead of centred on it
LayoutPosFromOrigin(count, mode, i) ==
  IF mode = "spin"
    THEN NumVec((i - 1) * spacing, RestHeight, 0)
    ELSE LET perRow == CeilSqrt(count)
             rows == CeilDiv(count, perRow)
             startX == 0 - ((perRow - 1) * spacing) \div 2
             startZ == 0 - ((rows - 1) * spacing) \div 2
             row == (i - 1) \div perRow
             col == (i - 1) % perRow
         IN  NumVec(startX + col * spacing, RestHeight, startZ + row * spacing)

\* the position layoutDice gives die i (1-based) of count dice
LayoutPos(count, mode, i) ==
  IF mode = "spin"
    THEN LET startX == 0 - ((count - 1) * spacing) \div 2
         IN  NumVec(startX + (i - 1) * spacing, RestHeight, 0)
    ELSE LET perRow == CeilSqrt(count)
             rows == CeilDiv(count, perRow)
             startX == 0 - ((perRow - 1) * spacing) \div 2
             startZ == 0 - ((rows - 1) * spacing) \div 2
             row == (i - 1) \div perRow
             col == (i - 1) % perRow
         IN  NumVec(startX + col * spacing, RestHeight, startZ + row * spacing)

layoutDice(S) ==
  LET count == Len(S.diceGroup)
  IN  [S EXCEPT !.diceGroup =
         [i \in 1..count |-> [@[i] EXCEPT !.pos = LayoutPos(count, S.rollMode, i)]]]

----------------------------------------------------------------------------
(* resetPhysicsPositions *)

\* the drop with a jitter of (rng() - 0.5) * 1.0 in x and z
DropStateWideJitter(b, count, i, d) ==
  LET perRow == CeilSqrt(count)
      rows == CeilDiv(count, perRow)
      startX == 0 - ((perRow - 1) * spacing) \div 2
      startZ == 0 - ((rows - 1) * spacing) \div 2
      row == (i - 1) \div perRow
      col == (i - 1) % perRow
      x == Aff(startX + col * spacing - 500, 1000, d[1])
      z == Aff(startZ + row * spacing - 500, 1000, d[2])
      y == Aff(6000, 3000, d[3])
  IN  [b EXCEPT !.pos = <<x, y, z>>,
                !.vel = <<Aff(-2000, 4000, d[4]), Aff(-2000, -2000, d[5]),
                          Aff(-2000, 4000, d[6])>>,
                !.angVel = <<Aff(-7000, 14000, d[7]), Aff(-7000, 14000, d[8]),
                             Aff(-7000, 14000, d[9])>>,
                !.quat = EulerQuat(Aff(0, 1000, d[10]), Aff(0, 1000, d[11]),
                                   Aff(0, 1000, d[12])),
                !.sleep = "awake"]

\* the body state drawn for the die at index i (1-based) from twelve
\* consecutive values d of the generator
DropState(b, count, i, d) ==
  LET perRow == CeilSqrt(count)
      rows == CeilDiv(count, perRow)
      startX == 0 - ((perRow - 1) * spacing) \div 2
      startZ == 0 - ((rows - 1) * spacing) \div 2
      row == (i - 1) \div perRow
      col == (i - 1) % perRow
      x == Aff(startX + col * spacing - 300, 600, d[1])
      z == Aff(startZ + row * spacing - 300, 600, d[2])
      y == Aff(6000, 3000, d[3])
  IN  [b EXCEPT !.pos = <<x, y, z>>,
                !.vel = <<Aff(-2000, 4000, d[4]), Aff(-2000, -2000, d[5]),
                          Aff(-2000, 4000, d[6])>>,
                !.angVel = <<Aff(-7000, 14000, d[7]), Aff(-7000, 14000, d[8]),
                             Aff(-7000, 14000, d[9])>>,
                !.quat = EulerQuat(Aff(0, 1000, d[10]), Aff(0, 1000, d[11]),
                                   Aff(0, 1000, d[12])),
                !.sleep = "awake"]

resetPhysicsPositions(S, seed) ==
  LET count == Len(S.diceGroup)
      withBody == SelectSeq([i \in 1..count |-> i],
                            LAMBDA i : S.diceGroup[i].body # NoBody)
      rng == createRandom(seed, 12 * Len(withBody))
      \* position of die i among the dice that have a body
      rank(i) == Cardinality({j \in 1..i : S.diceGroup[j].body # NoBody})
      drawn(id) ==
        LET i == CHOOSE i \in 1..count : S.diceGroup[i].body = id
        IN  DropState(S.body[id], count, i,
                      SubSeq(rng, 12 * (rank(i) - 1) + 1, 12 * rank(i)))
      ids == {S.diceGroup[i].body : i \in 1..count} \ {NoBody}
  IN  IF ~S.world \/ count = 0 THEN S
      ELSE [S EXCEPT !.body = [id \in DOMAIN @ |->
                                 IF id \in ids THEN drawn(id) ELSE @[id]]]

----------------------------------------------------------------------------
(* createDie / rebuildDice *)

\* createDiceMaterial: one material per face, in the order of FaceOrder,
\* each showing its pips in pipColor on diceColor
createDiceMaterial(dice, pip) ==
  [k \in 1..Len(FaceOrder) |-> [value |-> FaceOrder[k], dice |-> dice, pip |-> pip]]

createDie(id, dice, pip) ==
  [id |-> id, pos |-> NumVec(0, 0, 0), rot |-> ZeroEuler, body |-> NoBody,
   faces |-> createDiceMaterial(dice, pip)]

\* the removal with world.removeBody left out
removeDiceKeepsBodies(S) ==
  Collect([S EXCEPT !.diceGroup = <<>>, !.diceBodies = <<>>])

\* the first part of rebuildDice: dispose of the meshes, remove the bodies
removeDice(S) ==
  LET gone == SeqRange(S.diceBodies)
  IN  Collect([S EXCEPT !.diceGroup = <<>>,
                        !.worldBodies = IF S.world THEN Without(@, gone) ELSE @,
                        !.diceBodies = <<>>])

\* the loop of rebuildDice: numDice new dice are added to the group, each
\* with a body added to the world if there is one
createDice(S) ==
  LET g == FreshGen(S)
      n == S.numDice
      dieBody == NewBody(1, <<DieHalfExtent, DieHalfExtent, DieHalfExtent>>)
      newIds == [i \in 1..n |-> <<"die", g, i>>]
  IN  IF S.world
        THEN [S EXCEPT
                !.diceGroup = @ \o [i \in 1..n |->
                                [createDie(<<"mesh", g, i>>, S.diceColor, S.pipColor) EXCEPT !.body = newIds[i]]],
                !.worldBodies = @ \o newIds,
                !.diceBodies = @ \o newIds,
                !.body = [id \in DOMAIN @ \cup SeqRange(newIds) |->
                            IF id \in SeqRange(newIds) THEN dieBody ELSE @[id]]]
        ELSE [S EXCEPT
                !.diceGroup = @ \o [i \in 1..n |->
                                createDie(<<"mesh", g, i>>, S.diceColor, S.pipColor)]]

\* the rebuild with the camera framed before the dice are replaced
rebuildDiceFramesFirst(S, seed) ==
  LET S3 == layoutDice(createDice(removeDice(positionCamera(S))))
      S4 == IF S3.world THEN resetPhysicsPositions(S3, seed) ELSE S3
  IN  updateArenaBounds(S4)

rebuildDice(S, seed) ==
  LET S3 == layoutDice(createDice(removeDice(S)))
      S4 == IF S3.world THEN resetPhysicsPositions(S3, seed) ELSE S3
  IN  updateArenaBounds(positionCamera(S4))

----------------------------------------------------------------------------
(* resetDiceTransformsForMode / onResize *)

\* the reset with the body's velocity and sleep state left alone
resetDiceTransformsKeepsMotion(S) ==
  LET S1 == layoutDice(S)
      count == Len(S1.diceGroup)
      meshes == [i \in 1..count |->
                   [S1.diceGroup[i] EXCEPT !.rot = ZeroEuler,
                                           !.pos[2] = Num(RestHeight)]]
      owner(id) == CHOOSE i \in 1..count : meshes[i].body = id
      ids == {meshes[i].body : i \in 1..count} \ {NoBody}
  IN  [S1 EXCEPT !.diceGroup = meshes,
                 !.body = [id \in DOMAIN @ |->
                             IF S1.world /\ id \in ids
                               THEN [@[id] EXCEPT !.pos = meshes[owner(id)].pos,
                                                  !.quat = IdentityQuat]
                               ELSE @[id]]]

resetDiceTransformsForMode(S) ==
  LET S1 == layoutDice(S)
      count == Len(S1.diceGroup)
      meshes == [i \in 1..count |->
                   [S1.diceGroup[i] EXCEPT !.rot = ZeroEuler,
                                           !.pos[2] = Num(RestHeight)]]
      owner(id) == CHOOSE i \in 1..count : meshes[i].body = id
      ids == {meshes[i].body : i \in 1..count} \ {NoBody}
  IN  [S1 EXCEPT !.diceGroup = meshes,
                 !.body = [id \in DOMAIN @ |->
                             IF S1.world /\ id \in ids
                               THEN [@[id] EXCEPT !.pos = meshes[owner(id)].pos,
                                                  !.vel = NumVec(0, 0, 0),
                                                  !.angVel = NumVec(0, 0, 0),
                                                  !.quat = IdentityQuat,
                                                  !.sleep = "sleeping"]
                               ELSE @[id]]]

\* the resize that also lays the dice out again
onResizeRelayout(S, vp) ==
  LET S1 == [S EXCEPT !.camera.aspect = Frac(vp[1], vp[2])]
  IN  updateArenaBounds(positionCamera(resetDiceTransformsForMode(S1)))

\* the resize that frames the camera before it updates the aspect
onResizeStaleAspect(S, vp) ==
  LET S1 == positionCamera(S)
  IN  updateArenaBounds([S1 EXCEPT !.camera.aspect = Frac(vp[1], vp[2])])

\* camera.aspect = w / h
onResize(S, vp) ==
  LET S1 == [S EXCEPT !.camera.aspect = Frac(vp[1], vp[2])]
  IN  updateArenaBounds(positionCamera(S1))

----------------------------------------------------------------------------
(* rollDice *)

NoCallback == [kind |-> "none", elapsed |-> 0, qx |-> <<>>, qy |-> <<>>,
               dx |-> <<>>, dy |-> <<>>, base |-> <<>>, dur |-> 0]

\* the spin branch: lay the dice on one row
RowPositions(S) ==
  LET count == Len(S.diceGroup)
      startX == 0 - ((count - 1) * spacing) \div 2
  IN  [S EXCEPT !.diceGroup =
         [i \in 1..count |->
            [@[i] EXCEPT !.pos = NumVec(startX + (i - 1) * spacing, RestHeight, 0)]]]

\* the tickSpin closure created by a roll
SpinSession(S, seed) ==
  LET count == Len(S.diceGroup)
      rng == createRandom(seed, 4 * count)
  IN  [kind |-> "spin", elapsed |-> 0,
       qx |-> [i \in 1..count |-> 4 + FloorScale(rng[i], 11)],
       qy |-> [i \in 1..count |-> 4 + FloorScale(rng[count + i], 11)],
       dx |-> [i \in 1..count |-> 800 + FloorScale(rng[2 * count + i], 400)],
       dy |-> [i \in 1..count |-> 800 + FloorScale(rng[3 * count + i], 400)],
       base |-> [i \in 1..count |-> S.diceGroup[i].rot],
       dur |-> 0]

\* the animate closure of the fallback: duration = 1200 + rng() * 800
AnimSession(seed) ==
  [NoCallback EXCEPT !.kind = "anim", !.dur = createRandom(seed, 1)[1]]

\* rollDice: the new core state, the callback it schedules and the flag
rollDice(S, flag, seed) ==
  IF S.rollMode = "physics" /\ S.world
    THEN [S |-> resetPhysicsPositions(S, seed), cb |-> NoCallback, flag |-> flag]
  ELSE IF S.rollMode = "spin"
    THEN LET S1 == RowPositions(S)
         IN  [S |-> S1, cb |-> SpinSession(S1, seed), flag |-> TRUE]
  ELSE [S |-> S, cb |-> AnimSession(seed), flag |-> flag]

----------------------------------------------------------------------------
(* Frame callbacks *)

\* elapsed / dur without the Math.min
ProgressUnclamped(elapsed, dur) == <<elapsed, dur>>

\* Math.min(1, elapsed / dur)
Progress(elapsed, dur) == IF elapsed >= dur THEN <<1, 1>> ELSE <<elapsed, dur>>

\* base + quarters * (PI / 2) * easeOutCubic(p)
SpinAngle(base, quarters, p) ==
  LET e == easeOutCubic(p) IN RotPlus(base, quarters, e[1], e[2])

\* tickSpin with allDone decided by the progress about x alone
tickSpinXOnly(cb, dice, flag) ==
  LET elapsed == cb.elapsed
      n == Len(dice)
      m == Len(cb.base)
      written == 1..Min(n, m)
      px(i) == Progress(elapsed, cb.dx[i])
      py(i) == Progress(elapsed, cb.dy[i])
      threw == n > m
      allDone == \A i \in written : px(i) = <<1, 1>>
      meshes == [i \in 1..n |->
                   IF i \in written
                     THEN [dice[i] EXCEPT
                             !.rot.x = SpinAngle(cb.base[i].x, cb.qx[i], px(i)),
                             !.rot.y = SpinAngle(cb.base[i].y, cb.qy[i], py(i))]
                     ELSE dice[i]]
  IN  [dice |-> meshes, threw |-> threw, wrote |-> written,
       again |-> ~threw /\ ~allDone,
       flag |-> IF ~threw /\ allDone THEN FALSE ELSE flag]

\* one call of tickSpin: the meshes it leaves, whether it threw, whether it
\* asked for another frame, and the flag
tickSpin(cb, dice, flag) ==
  LET elapsed == cb.elapsed
      n == Len(dice)
      m == Len(cb.base)
      written == 1..Min(n, m)
      px(i) == Progress(elapsed, cb.dx[i])
      py(i) == Progress(elapsed, cb.dy[i])
      threw == n > m          \* baseRot[i] is undefined for a die added since
      allDone == \A i \in written : px(i) = <<1, 1>> /\ py(i) = <<1, 1>>
      meshes == [i \in 1..n |->
                   IF i \in written
                     THEN [dice[i] EXCEPT
                             !.rot.x = SpinAngle(cb.base[i].x, cb.qx[i], px(i)),
                             !.rot.y = SpinAngle(cb.base[i].y, cb.qy[i], py(i))]
                     ELSE dice[i]]
  IN  [dice |-> meshes, threw |-> threw, wrote |-> written,
       again |-> ~threw /\ ~allDone,
       flag |-> IF ~threw /\ allDone THEN FALSE ELSE flag]

AnimRot == [o |-> "anim", w |-> 0, f |-> {}]

\* the fallback animation kept running for the longest duration it can draw
AnimRunningFullSpan(cb) == cb.elapsed < 2000

\* t < 1 in animate, i.e. elapsed < 1200 + 800 * (n / M28)
AnimRunning(cb) ==
  LET e == cb.elapsed - 1200
      a == M28 \div 800
      b == M28 % 800
  IN  \/ e < 0
      \/ e < 800 /\ cb.dur >= e * a + ((e * b) \div 800) + 1

\* one call of animate
animate(cb, dice) ==
  LET running == AnimRunning(cb)
  IN  [dice |-> [i \in 1..Len(dice) |->
                   [dice[i] EXCEPT
                      !.rot = [x |-> AnimRot, y |-> AnimRot, z |-> AnimRot],
                      !.pos[2] = IF running THEN BounceNum ELSE Num(RestHeight)]],
       again |-> running]

\* run the queued callbacks in order, dt after the previous frame
RECURSIVE RunCallbacks(_, _, _)
RunCallbacks(queue, acc, dt) ==
  IF queue = <<>> THEN acc
  ELSE LET cb == [Head(queue) EXCEPT !.elapsed = @ + dt] IN
       IF cb.kind = "spin"
         THEN LET r == tickSpin(cb, acc.dice, acc.flag)
              IN  RunCallbacks(Tail(queue),
                    [dice |-> r.dice, flag |-> r.flag,
                     fault |-> acc.fault \/ r.threw,
                     wrote |-> acc.wrote \cup r.wrote,
                     queue |-> IF r.again THEN Append(acc.queue, cb) ELSE acc.queue],
                    dt)
         ELSE LET r == animate(cb, acc.dice)
              IN  RunCallbacks(Tail(queue),
                    [acc EXCEPT !.dice = r.dice,
                                !.queue = IF r.again THEN Append(@, cb) ELSE @],
                    dt)

\* the dynamic bodies in the world
DynamicBodies(S) == {id \in SeqRange(S.worldBodies) : S.body[id].mass > 0}

\* the sets of bodies that may be asleep after one world.step
StepOutcomes(S) ==
  LET dyn == DynamicBodies(S)
      awakeBefore == {id \in dyn : S.body[id].sleep = "awake"}
  IN  {asleep \in SUBSET dyn : awakeBefore = {} => asleep = dyn}

\* world.step: bodies are integrated; asleep is the set asleep afterwards
stepWorld(S, asleep) ==
  LET dyn == DynamicBodies(S)
      next(b, sleeps) ==
        IF sleeps
          THEN IF b.sleep = "sleeping" THEN b
               ELSE [b EXCEPT !.pos = <<SimNum, SimNum, SimNum>>,
                              !.vel = NumVec(0, 0, 0),
                              !.angVel = NumVec(0, 0, 0),
                              !.quat = SimQuat, !.sleep = "sleeping"]
          ELSE [b EXCEPT !.pos = <<SimNum, SimNum, SimNum>>,
                         !.vel = <<SimNum, SimNum, SimNum>>,
                         !.angVel = <<SimNum, SimNum, SimNum>>,
                         !.quat = SimQuat, !.sleep = "awake"]
  IN  [S EXCEPT !.body = [id \in DOMAIN @ |->
                            IF id \in dyn THEN next(@[id], id \in asleep) ELSE @[id]]]

\* the body-to-mesh copy of tick
SyncAllowed(S, flag) == S.rollMode = "physics" /\ ~flag

syncMeshes(S) ==
  LET synced(mesh) ==
        IF mesh.body = NoBody THEN mesh
        ELSE [mesh EXCEPT
                !.pos = S.body[mesh.body].pos,
                !.rot = IF S.body[mesh.body].quat = IdentityQuat
                          THEN ZeroEuler ELSE BodyEuler]
  IN  [S EXCEPT !.diceGroup = [i \in 1..Len(S.diceGroup) |-> synced(S.diceGroup[i])]]

\* tick: step the world and copy bodies to meshes
tick(S, flag, asleep) ==
  LET S1 == IF S.world THEN stepWorld(S, asleep) ELSE S
      sync == S.world /\ SyncAllowed(S1, flag)
      S2 == IF sync THEN syncMeshes(S1) ELSE S1
  IN  [S |-> S2,
       wrote |-> IF sync THEN {i \in 1..Len(S.diceGroup) : S.diceGroup[i].body # NoBody}
                 ELSE {}]

----------------------------------------------------------------------------
(* Text of the number input.  A text is a sequence of characters. *)

Digits == <<"0", "1", "2", "3", "4", "5", "6", "7", "8", "9">>

IsDigit(c) == \E d \in 1..Len(Digits) : Digits[d] = c
DigitValue(c) == (CHOOSE d \in 1..Len(Digits) : Digits[d] = c) - 1

\* String(v) for an integer v
RECURSIVE DigitsOf(_)
DigitsOf(v) ==
  IF v < 10 THEN <<Digits[v + 1]>> ELSE Append(DigitsOf(v \div 10), Digits[(v % 10) + 1])

String(v) == IF v < 0 THEN <<"-">> \o DigitsOf(0 - v) ELSE DigitsOf(v)

\* the value of the longest prefix of digits of t, after acc
RECURSIVE ReadDigits(_, _)
ReadDigits(t, acc) ==
  IF t = <<>> \/ ~IsDigit(Head(t)) THEN acc
  ELSE ReadDigits(Tail(t), 10 * acc + DigitValue(Head(t)))

\* parseInt(t, 10) of a text that starts with a digit, or with - and a digit
parseInt(t) ==
  IF Head(t) = "-" THEN 0 - ReadDigits(Tail(t), 0) ELSE ReadDigits(t, 0)

----------------------------------------------------------------------------
(* The state machine *)

\* lastOp: the operation and its arguments
Op(name, a, b) == [op |-> name, a |-> a, b |-> b]

Install(S) ==
  /\ numDice' = S.numDice
  /\ rollMode' = S.rollMode
  /\ diceGroup' = S.diceGroup
  /\ diceBodies' = S.diceBodies
  /\ arenaBodies' = S.arenaBodies
  /\ worldBodies' = S.worldBodies
  /\ body' = S.body
  /\ camera' = S.camera

DefaultNumDice == 2
DefaultDiceColor == "#ffffff"
DefaultPipColor == "#000000"

\* the core state before the first rebuildDice()
Blank(hasWorld, mode, vp) ==
  [numDice |-> DefaultNumDice, rollMode |-> mode, world |-> hasWorld,
   diceGroup |-> <<>>, diceBodies |-> <<>>, arenaBodies |-> <<>>,
   worldBodies |-> IF hasWorld THEN <<GroundId>> ELSE <<>>,
   body |-> IF hasWorld THEN [id \in {GroundId} |-> GroundBody]
            ELSE [id \in {} |-> GroundBody],
   camera |-> [aspect |-> Frac(vp[1], vp[2]),
               position |-> <<<<6, 1>>, <<9, 1>>, <<10, 1>>>>],
   diceColor |-> DefaultDiceColor, pipColor |-> DefaultPipColor]

\* the state once the script has run: rebuildDice(); onResize()
Init ==
  /\ world \in BOOLEAN
  /\ \E mode \in {"spin", "physics"}, vp \in Viewports, seed \in Seeds :
       LET S == onResize(rebuildDice(Blank(world, mode, vp), seed), vp)
       IN  /\ numDice = S.numDice
           /\ rollMode = S.rollMode
           /\ diceGroup = S.diceGroup
           /\ diceBodies = S.diceBodies
           /\ arenaBodies = S.arenaBodies
           /\ worldBodies = S.worldBodies
           /\ body = S.body
           /\ camera = S.camera
  /\ isRowSpinning = FALSE
  /\ raf = <<>>
  /\ ticked = FALSE
  /\ lastOp = Op("init", 0, 0)
  /\ fault = FALSE
  /\ syncWrote = {}
  /\ spinWrote = {}
  /\ generators = <<>>
  /\ diceColor = DefaultDiceColor
  /\ pipColor = DefaultPipColor
  /\ formNumDice = String(DefaultNumDice)

\* a settings handler that sets the die count: appState.numDice = n; rebuildDice()
Rebuild(n) ==
  /\ \E seed \in Seeds : Install(rebuildDice([Core EXCEPT !.numDice = n], seed))
  /\ lastOp' = Op("rebuild", n, 0)
  /\ syncWrote' = {}
  /\ spinWrote' = {}
  /\ formNumDice' = String(n)
  /\ UNCHANGED <<generators, world, isRowSpinning, raf, ticked, fault, diceColor, pipColor>>

\* the roll-style control: appState.rollMode = mode; resetDiceTransformsForMode()
SetMode(mode) ==
  /\ Install(resetDiceTransformsForMode([Core EXCEPT !.rollMode = mode]))
  /\ lastOp' = Op("setMode", IF mode = "spin" THEN 0 ELSE 1, 0)
  /\ syncWrote' = {}
  /\ spinWrote' = {}
  /\ UNCHANGED <<generators, world, isRowSpinning, raf, ticked, fault, diceColor, pipColor, formNumDice>>

\* the window resize handler
OnResize(vp) ==
  /\ Install(onResize(Core, vp))
  /\ lastOp' = Op("resize", vp[1], vp[2])
  /\ syncWrote' = {}
  /\ spinWrote' = {}
  /\ UNCHANGED <<generators, world, isRowSpinning, raf, ticked, fault, diceColor, pipColor, formNumDice>>

\* quarter turns a die has accumulated about x or y
Turns(mesh) == Max(mesh.rot.x.w, mesh.rot.y.w)

Pending(kind) == SelectSeq(raf, LAMBDA cb : cb.kind = kind)

RollAllowed ==
  /\ Len(Pending("spin")) < MaxSpins
  /\ Len(Pending("anim")) < MaxAnims
  /\ \A i \in 1..Len(diceGroup) : Turns(diceGroup[i]) < MaxTurns

\* the roll button
Roll ==
  /\ RollAllowed
  /\ \E seed \in Seeds :
       LET r == rollDice(Core, isRowSpinning, seed)
       IN  /\ Install(r.S)
           /\ isRowSpinning' = r.flag
           /\ raf' = IF r.cb.kind = "none" THEN raf ELSE Append(raf, r.cb)
  /\ lastOp' = Op("roll", 0, 0)
  /\ syncWrote' = {}
  /\ spinWrote' = {}
  /\ UNCHANGED <<generators, world, ticked, fault, diceColor, pipColor, formNumDice>>

\* one animation frame dt after the previous one: tick, then the queued
\* animation callbacks in the order they were requested
Frame(dt) ==
  /\ \E asleep \in StepOutcomes(Core) :
       LET t == tick(Core, isRowSpinning, asleep)
           r == RunCallbacks(raf, [dice |-> t.S.diceGroup, flag |-> isRowSpinning,
                                   fault |-> fault, wrote |-> {}, queue |-> <<>>],
                             dt)
       IN  /\ Install([t.S EXCEPT !.diceGroup = r.dice])
           /\ isRowSpinning' = r.flag
           /\ raf' = r.queue
           /\ fault' = r.fault
           /\ syncWrote' = t.wrote
           /\ spinWrote' = r.wrote
  /\ ticked' = (world \/ ticked)
  /\ lastOp' = Op("frame", dt, 0)
  /\ UNCHANGED <<generators, world, diceColor, pipColor, formNumDice>>

Next ==
  \/ \E n \in 1..MaxDice : Rebuild(n)
  \/ \E mode \in {"spin", "physics"} : SetMode(mode)
  \/ \E vp \in Viewports : OnResize(vp)
  \/ Roll
  \/ \E dt \in FrameSteps : Frame(dt)

Spec == Init /\ [][Next]_vars

----------------------------------------------------------------------------
(* A single spin session at a time, with a frame every time unit *)

SpinTurns == 16       \* a roll starts only below this many quarter turns

InitSpin ==
  /\ Init
  /\ rollMode = "spin"
  /\ camera.aspect = <<4, 3>>

\* the roll button pressed while no animation callback is pending
RollIdle ==
  /\ raf = <<>>
  /\ \A i \in 1..Len(diceGroup) : Turns(diceGroup[i]) < SpinTurns
  /\ \E seed \in Seeds :
       LET r == rollDice(Core, isRowSpinning, seed)
       IN  /\ Install(r.S)
           /\ isRowSpinning' = r.flag
           /\ raf' = IF r.cb.kind = "none" THEN raf ELSE Append(raf, r.cb)
  /\ lastOp' = Op("roll", 0, 0)
  /\ syncWrote' = {}
  /\ spinWrote' = {}
  /\ UNCHANGED <<generators, world, ticked, fault, diceColor, pipColor, formNumDice>>

\* a frame one time unit after the previous one
FrameUnit == Frame(1)

NextSpin == RollIdle \/ FrameUnit

SpecSpin == InitSpin /\ [][NextSpin]_vars

----------------------------------------------------------------------------
(* Every operation, with a roll only while no animation callback is pending *)

RebuildSome == \E n \in 1..MaxDice : Rebuild(n)
SetModeSome == \E mode \in {"spin", "physics"} : SetMode(mode)
OnResizeSome == \E vp \in Viewports : OnResize(vp)
FrameSome == \E dt \in FrameSteps : Frame(dt)

NextOps == RebuildSome \/ SetModeSome \/ OnResizeSome \/ RollIdle \/ FrameSome

SpecOps == Init /\ [][NextOps]_vars

----------------------------------------------------------------------------
(* Rebuilds, mode changes and resizes over the whole range of die counts *)

NumDiceMax == 10

RebuildAny == \E n \in 1..NumDiceMax : Rebuild(n)
SetModeAny == \E mode \in {"spin", "physics"} : SetMode(mode)
OnResizeAny == \E vp \in Viewports : OnResize(vp)

NextLayout == RebuildAny \/ SetModeAny \/ OnResizeAny

SpecLayout == Init /\ [][NextLayout]_vars

----------------------------------------------------------------------------
(* The settings sheet: the stored record and the handlers of the form *)

\* texts the number input and the range input can hold
FormTexts == {<<>>, <<"0">>, <<"-", "1">>, <<"3">>, <<"1", "0">>, <<"1", "1">>, <<"1", "2">>}

\* numDice values a stored record can hold
StoredCounts == {-1, 0, 1, 3, 10, 11}

Colors == {"#ffffff", "#000000", "#ff0000"}

\* Math.max(1, Math.min(10, v))
ClampCount(v) == Max(1, Min(10, v))

\* parseInt(value || "2", 10)
FormCount(t) == parseInt(IF t = <<>> THEN <<"2">> ELSE t)

\* loadState: Object.assign(appState, data), data = "none" or a record
loadState(S, data) ==
  IF data.present
    THEN [S EXCEPT !.numDice = data.numDice, !.diceColor = data.diceColor,
                   !.pipColor = data.pipColor]
    ELSE S

StoredRecords ==
  {[present |-> FALSE, numDice |-> DefaultNumDice, diceColor |-> DefaultDiceColor,
    pipColor |-> DefaultPipColor]}
  \cup [present : {TRUE}, numDice : StoredCounts, diceColor : {"#ff0000"},
        pipColor : {DefaultPipColor}]

\* the parts of the state the settings handlers leave alone
SettingsFrame ==
  /\ syncWrote' = {}
  /\ spinWrote' = {}
  /\ UNCHANGED <<generators, world, isRowSpinning, raf, ticked, fault>>

\* install a core state and the two colours it carries
InstallSettings(S) ==
  /\ Install(S)
  /\ diceColor' = S.diceColor
  /\ pipColor' = S.pipColor

\* the state once the script has run with a stored record: loadState();
\* rebuildDice(); onResize()
InitSettings ==
  /\ world \in BOOLEAN
  /\ \E data \in StoredRecords, seed \in Seeds :
       LET vp == <<800, 600>>
           S == onResize(rebuildDice(loadState(Blank(world, "spin", vp), data), seed), vp)
       IN  /\ numDice = S.numDice
           /\ rollMode = S.rollMode
           /\ diceGroup = S.diceGroup
           /\ diceBodies = S.diceBodies
           /\ arenaBodies = S.arenaBodies
           /\ worldBodies = S.worldBodies
           /\ body = S.body
           /\ camera = S.camera
           /\ diceColor = S.diceColor
           /\ pipColor = S.pipColor
  /\ formNumDice = String(DefaultNumDice)
  /\ isRowSpinning = FALSE
  /\ raf = <<>>
  /\ ticked = FALSE
  /\ lastOp = Op("init", 0, 0)
  /\ fault = FALSE
  /\ syncWrote = {}
  /\ spinWrote = {}
  /\ generators = <<>>

\* the edit button: the form takes the values of appState
EditSettings ==
  /\ formNumDice' = String(numDice)
  /\ lastOp' = Op("edit", 0, 0)
  /\ UNCHANGED <<numDice, rollMode, diceGroup, diceBodies, arenaBodies, worldBodies,
                 body, camera, diceColor, pipColor>>
  /\ SettingsFrame

\* the save button, with the colours the form holds
SaveSettings ==
  /\ \E dice \in Colors, pip \in Colors, seed \in Seeds :
       LET n == ClampCount(FormCount(formNumDice))
           changed == n # numDice \/ dice # diceColor \/ pip # pipColor
           S == [Core EXCEPT !.numDice = n, !.diceColor = dice, !.pipColor = pip]
       IN  InstallSettings(IF changed THEN rebuildDice(S, seed) ELSE S)
  /\ lastOp' = Op("save", 0, 0)
  /\ UNCHANGED formNumDice
  /\ SettingsFrame

\* text typed into the number input
NumDiceInput ==
  /\ \E t \in FormTexts, seed \in Seeds :
       /\ formNumDice' = t
       /\ InstallSettings(rebuildDice([Core EXCEPT !.numDice = ClampCount(FormCount(t))],
                                      seed))
  /\ lastOp' = Op("numDice", 0, 0)
  /\ SettingsFrame

\* the range input moved to a value
NumRangeInput ==
  /\ \E t \in FormTexts \ {<<>>}, seed \in Seeds :
       LET v == parseInt(t)
       IN  /\ formNumDice' = String(v)
           /\ InstallSettings(rebuildDice([Core EXCEPT !.numDice = ClampCount(v)], seed))
  /\ lastOp' = Op("numRange", 0, 0)
  /\ SettingsFrame

\* the minus button of the stepper
StepperDec ==
  /\ \E seed \in Seeds :
       LET v == Max(1, FormCount(formNumDice) - 1)
       IN  /\ formNumDice' = String(v)
           /\ InstallSettings(rebuildDice([Core EXCEPT !.numDice = v], seed))
  /\ lastOp' = Op("stepperDec", 0, 0)
  /\ SettingsFrame

\* the plus button of the stepper
StepperInc ==
  /\ \E seed \in Seeds :
       LET v == Min(10, FormCount(formNumDice) + 1)
       IN  /\ formNumDice' = String(v)
           /\ InstallSettings(rebuildDice([Core EXCEPT !.numDice = v], seed))
  /\ lastOp' = Op("stepperInc", 0, 0)
  /\ SettingsFrame

\* the colour inputs: value || default, then rebuildDice
DiceColorInput ==
  /\ \E c \in Colors \cup {""}, seed \in Seeds :
       InstallSettings(rebuildDice(
         [Core EXCEPT !.diceColor = IF c = "" THEN DefaultDiceColor ELSE c], seed))
  /\ lastOp' = Op("diceColor", 0, 0)
  /\ UNCHANGED formNumDice
  /\ SettingsFrame

PipColorInput ==
  /\ \E c \in Colors \cup {""}, seed \in Seeds :
       InstallSettings(rebuildDice(
         [Core EXCEPT !.pipColor = IF c = "" THEN DefaultPipColor ELSE c], seed))
  /\ lastOp' = Op("pipColor", 0, 0)
  /\ UNCHANGED formNumDice
  /\ SettingsFrame

\* the reset button
ResetSettings ==
  /\ \E seed \in Seeds :
       InstallSettings(rebuildDice([Core EXCEPT !.numDice = 2,
                                                !.diceColor = "#ffffff",
                                                !.pipColor = "#000000"], seed))
  /\ formNumDice' = <<"2">>
  /\ lastOp' = Op("reset", 0, 0)
  /\ SettingsFrame

NextSettings ==
  \/ EditSettings
  \/ SaveSettings
  \/ NumDiceInput
  \/ NumRangeInput
  \/ StepperDec
  \/ StepperInc
  \/ DiceColorInput
  \/ PipColorInput
  \/ ResetSettings

SpecSettings == InitSettings /\ [][NextSettings]_vars

----------------------------------------------------------------------------
(* setDieToFace.  A face value is a JavaScript value: a number, a string   *)
(* (a sequence of characters), undefined or NaN.                            *)

JsNumber(n) == [t |-> "number", n |-> n, s |-> <<>>]
JsString(s) == [t |-> "string", n |-> 0, s |-> s]
JsUndefined == [t |-> "undefined", n |-> 0, s |-> <<>>]
JsNaN == [t |-> "NaN", n |-> 0, s |-> <<>>]

\* the property key a value is converted to in rotations[faceValue]
PropertyKey(v) ==
  CASE v.t = "number" -> String(v.n)
    [] v.t = "string" -> v.s
    [] v.t = "undefined" -> <<"u", "n", "d", "e", "f", "i", "n", "e", "d">>
    [] v.t = "NaN" -> <<"N", "a", "N">>

\* new THREE.Euler(x, y, z), in quarter turns
Euler(x, y, z) ==
  [x |-> [ZeroRot EXCEPT !.w = x], y |-> [ZeroRot EXCEPT !.w = y],
   z |-> [ZeroRot EXCEPT !.w = z]]

\* an Euler angle set from a value that is undefined
UndefinedRot == [o |-> "undefined", w |-> 0, f |-> {}]

\* the same table with the rotations of 3 and 4 exchanged
rotationsSwapped ==
  [k \in {String(n) : n \in 1..6} |->
     CASE k = <<"1">> -> Euler(0, 0, 1)
       [] k = <<"2">> -> Euler(0, 0, 0)
       [] k = <<"3">> -> Euler(1, 0, 0)
       [] k = <<"4">> -> Euler(-1, 0, 0)
       [] k = <<"5">> -> Euler(2, 0, 0)
       [] k = <<"6">> -> Euler(0, 0, -1)]

\* the own properties of the object literal rotations
rotations ==
  [k \in {String(n) : n \in 1..6} |->
     CASE k = <<"1">> -> Euler(0, 0, 1)
       [] k = <<"2">> -> Euler(0, 0, 0)
       [] k = <<"3">> -> Euler(-1, 0, 0)
       [] k = <<"4">> -> Euler(1, 0, 0)
       [] k = <<"5">> -> Euler(2, 0, 0)
       [] k = <<"6">> -> Euler(0, 0, -1)]

\* names an object literal inherits from Object.prototype; each names a
\* function, which is truthy and has no x, y or z
InheritedKeys ==
  { <<"t", "o", "S", "t", "r", "i", "n", "g">>,
    <<"v", "a", "l", "u", "e", "O", "f">>,
    <<"c", "o", "n", "s", "t", "r", "u", "c", "t", "o", "r">> }

\* const e = rotations[faceValue] || rotations[2]; mesh.rotation.set(e.x, e.y, e.z)
setDieToFace(mesh, faceValue) ==
  LET key == PropertyKey(faceValue)
      e == IF key \in DOMAIN rotations THEN rotations[key]
           ELSE IF key \in InheritedKeys
             THEN [x |-> UndefinedRot, y |-> UndefinedRot, z |-> UndefinedRot]
           ELSE rotations[<<"2">>]
  IN  [mesh EXCEPT !.rot = e]

\* face values passed to setDieToFace
FaceInputs ==
  << JsNumber(-1), JsNumber(0), JsNumber(1), JsNumber(2), JsNumber(3), JsNumber(4),
     JsNumber(5), JsNumber(6), JsNumber(7), JsNumber(8), JsUndefined, JsNaN,
     JsString(<<>>), JsString(<<"a", "b">>),
     JsString(<<"t", "o", "S", "t", "r", "i", "n", "g">>),
     JsString(<<"v", "a", "l", "u", "e", "O", "f">>),
     JsString(<<"c", "o", "n", "s", "t", "r", "u", "c", "t", "o", "r">>) >>

\* setDieToFace(mesh, faceValue) on one of the dice
SetDieToFace ==
  /\ \E i \in 1..Len(diceGroup), k \in 1..Len(FaceInputs) :
       /\ diceGroup' = [diceGroup EXCEPT ![i] = setDieToFace(@, FaceInputs[k])]
       /\ lastOp' = Op("setDieToFace", i, k)
  /\ syncWrote' = {}
  /\ spinWrote' = {}
  /\ UNCHANGED <<generators, numDice, rollMode, world, diceBodies, arenaBodies, worldBodies, body,
                 camera, isRowSpinning, raf, ticked, fault, diceColor, pipColor,
                 formNumDice>>

InitFace ==
  /\ Init
  /\ rollMode = "spin"
  /\ camera.aspect = <<4, 3>>

NextFace == SetDieToFace \/ SetModeSome

SpecFace == InitFace /\ [][NextFace]_vars

----------------------------------------------------------------------------
(* easeOutCubic applied to sample arguments *)

EaseSteps == 12       \* the arguments are the multiples of 1/EaseSteps in [-1, 2]

\* a fraction whose denominator divides d, as a number of d-ths
Scaled(f, d) == f[1] * (d \div f[2])

\* easeOutCubic(a / EaseSteps) for a sample a; lastOp keeps a and the result
\* in units of 1 / EaseSteps^3
EaseSample ==
  /\ \E a \in (0 - EaseSteps)..(2 * EaseSteps) :
       lastOp' = Op("ease", a, Scaled(easeOutCubic(<<a, EaseSteps>>),
                                      EaseSteps * EaseSteps * EaseSteps))
  /\ UNCHANGED <<generators, numDice, rollMode, world, diceGroup, diceBodies, arenaBodies,
                 worldBodies, body, camera, isRowSpinning, raf, ticked, fault,
                 syncWrote, spinWrote, diceColor, pipColor, formNumDice>>

NextEase == EaseSample

SpecEase == Init /\ [][NextEase]_vars

----------------------------------------------------------------------------
(* Spin rolls over seeds that include one whose first draw is exactly 1 *)

\* createRandom() seeds itself with Math.random() * 1e9; the state after
\* 116766496 has all of its low 28 bits set
DrawSeeds == Seeds \cup {116766496}

\* the roll button pressed in spin mode while no callback is pending
RollDrawn ==
  /\ raf = <<>>
  /\ \A i \in 1..Len(diceGroup) : Turns(diceGroup[i]) < SpinTurns
  /\ \E seed \in DrawSeeds :
       LET r == rollDice(Core, isRowSpinning, seed)
       IN  /\ Install(r.S)
           /\ isRowSpinning' = r.flag
           /\ raf' = IF r.cb.kind = "none" THEN raf ELSE Append(raf, r.cb)
  /\ lastOp' = Op("roll", 0, 0)
  /\ syncWrote' = {}
  /\ spinWrote' = {}
  /\ UNCHANGED <<generators, world, ticked, fault, diceColor, pipColor, formNumDice>>

NextDraw == RollDrawn \/ FrameSome

SpecDraw == InitSpin /\ [][NextDraw]_vars

----------------------------------------------------------------------------
(* Without the physics engine: window.CANNON is undefined and world is null *)

FallbackSteps == {300, 550}

InitFallback ==
  /\ Init
  /\ ~world

\* the roll button in physics mode, pressed while no callback is pending
RollFallback ==
  /\ rollMode = "physics"
  /\ RollIdle

FrameFallback == \E dt \in FallbackSteps : Frame(dt)

NextFallback ==
  RebuildSome \/ SetModeSome \/ OnResizeSome \/ RollFallback \/ FrameFallback

SpecFallback == InitFallback /\ [][NextFallback]_vars

----------------------------------------------------------------------------
(* Generators: createRandom(seed) and the calls of the closures it returns *)

MaxGenerators == 2    \* closures alive at a time
MaxDraws == 3         \* calls of one closure

\* seed >>> 0 of the values Math.random() * 1e9 can take
RngSeeds == {0, 1, 1000, 65535, 65536, 116766496, 999999999}

OutsideGenerators ==
  <<numDice, rollMode, world, diceGroup, diceBodies, arenaBodies, worldBodies,
    body, camera, isRowSpinning, raf, ticked, fault, syncWrote, spinWrote,
    diceColor, pipColor, formNumDice>>

InitRng ==
  /\ Init
  /\ ~world
  /\ rollMode = "spin"
  /\ camera.aspect = <<4, 3>>

\* createRandom(seed): a closure over s = seed >>> 0; from and out record
\* the seed it was made from and the values it has returned
CreateRandom ==
  /\ Len(generators) < MaxGenerators
  /\ \E seed \in RngSeeds :
       /\ generators' = Append(generators,
                          [s |-> SeedState(seed), from |-> seed, out |-> <<>>])
       /\ lastOp' = Op("createRandom", seed, 0)
  /\ UNCHANGED OutsideGenerators

\* one call rng() of the closure at index g
CallRng ==
  /\ \E g \in 1..Len(generators) :
       /\ Len(generators[g].out) < MaxDraws
       /\ generators' = [generators EXCEPT
                           ![g].s = RngNext(@),
                           ![g].out = Append(@, RngOut(RngNext(generators[g].s)))]
       /\ lastOp' = Op("rng", g, 0)
  /\ UNCHANGED OutsideGenerators

NextRng == CreateRandom \/ CallRng

SpecRng == InitRng /\ [][NextRng]_vars

----------------------------------------------------------------------------
(* Physics rolls over the whole range of die counts, engine loaded *)

InitDrop ==
  /\ Init
  /\ world

\* the roll button in physics mode
RollDrop ==
  /\ world
  /\ rollMode = "physics"
  /\ raf = <<>>
  /\ \E seed \in DrawSeeds :
       LET r == rollDice(Core, isRowSpinning, seed)
       IN  /\ Install(r.S)
           /\ isRowSpinning' = r.flag
           /\ raf' = IF r.cb.kind = "none" THEN raf ELSE Append(raf, r.cb)
  /\ lastOp' = Op("roll", 0, 0)
  /\ syncWrote' = {}
  /\ spinWrote' = {}
  /\ UNCHANGED <<generators, world, ticked, fault, diceColor, pipColor, formNumDice>>

NextDrop == RebuildAny \/ SetModeAny \/ OnResizeAny \/ RollDrop

SpecDrop == InitDrop /\ [][NextDrop]_vars

----------------------------------------------------------------------------
(* Properties *)

\* C1: in no frame do the render loop's body-to-mesh copy and a spin
\* animation callback both write the transform of the same die
C1_NoFrameWritesTwice == syncWrote \cap spinWrote = {}

\* C2: a spin callback that runs after a rebuild does not throw, and once no
\* spin callback is pending the controller is Idle (isRowSpinning is false)
C2_RebuildTolerated ==
  /\ ~fault
  /\ Pending("spin") = <<>> => ~isRowSpinning


----------------------------------------------------------------------------
(* Spin sessions, under SpecSpin.  Time is counted in whole units and a    *)
(* drawn duration is taken to the whole unit below it.                     *)

\* the longest of a session's per-die per-axis durations
MaxDuration(cb) ==
  LET all == SeqRange(cb.dx) \cup SeqRange(cb.dy)
  IN  CHOOSE d \in all : \A e \in all : e <= d

\* C3: after a roll in spin mode from Idle, with a frame every time unit and
\* nothing else interleaved, a spin callback is still scheduled only while
\* less than max(duration)+1 time units have passed since the roll, and when
\* none is scheduled the controller is Idle (isRowSpinning is false)
C3_SpinCompletes ==
  /\ \A k \in 1..Len(raf) : raf[k].elapsed < MaxDuration(raf[k]) + 1
  /\ raf = <<>> => ~isRowSpinning
  /\ ~fault

\* a spin has run to its end and the controller is Idle again
C3_Witness ==
  /\ lastOp.op = "frame"
  /\ raf = <<>>
  /\ ~isRowSpinning
  /\ \E i \in 1..Len(diceGroup) : diceGroup[i].rot.x.w >= 4

\* v <= base + q quarter turns, for a whole base
RotAtMost(v, base, q) ==
  /\ v.o = base.o
  /\ Cardinality(v.f) <= 1
  /\ v.w + (IF v.f = {} THEN 0 ELSE 1) <= base.w + q

\* v = base + q quarter turns
RotIs(v, base, q) == v = [base EXCEPT !.w = @ + q]

\* C4: in every frame of a single spin session each die's rotation about x
\* and about y is at most base + quarters * 90 degrees, and it is exactly
\* that once the elapsed time has reached the axis's duration (base being
\* the rotation captured at the roll)
C4_NoOvershoot ==
  [][(lastOp'.op = "frame" /\ Len(raf) = 1) =>
       LET cb == raf[1]
           elapsed == cb.elapsed + 1
       IN  \A i \in 1..Len(cb.base) :
             /\ cb.base[i].x.f = {} /\ cb.base[i].y.f = {}
             /\ RotAtMost(diceGroup'[i].rot.x, cb.base[i].x, cb.qx[i])
             /\ RotAtMost(diceGroup'[i].rot.y, cb.base[i].y, cb.qy[i])
             /\ elapsed >= cb.dx[i] =>
                  RotIs(diceGroup'[i].rot.x, cb.base[i].x, cb.qx[i])
             /\ elapsed >= cb.dy[i] =>
                  RotIs(diceGroup'[i].rot.y, cb.base[i].y, cb.qy[i])]_vars

\* a session in flight in which one axis has come to rest on its final
\* angle while another is still turning
C4_Witness ==
  /\ lastOp.op = "frame"
  /\ Len(raf) = 1
  /\ \E i \in 1..Len(raf[1].base) :
       /\ raf[1].elapsed >= raf[1].dy[i]
       /\ raf[1].elapsed < raf[1].dx[i]
       /\ RotIs(diceGroup[i].rot.y, raf[1].base[i].y, raf[1].qy[i])
       /\ diceGroup[i].rot.x.f # {}

----------------------------------------------------------------------------
(* Rebuilds, mode changes and resizes, under SpecOps *)

\* the bodies the current dice own
DieBodyIds == {diceGroup[i].body : i \in 1..Len(diceGroup)} \ {NoBody}

\* C5: the number of die meshes equals the configured die count, and with
\* physics available the dynamic bodies of the world are exactly the bodies
\* of the current dice, one per die, each in the world once
C5_DiceMatchConfig ==
  /\ Len(diceGroup) = numDice
  /\ world =>
       /\ \A i \in 1..Len(diceGroup) : diceGroup[i].body # NoBody
       /\ \A i, j \in 1..Len(diceGroup) :
            diceGroup[i].body = diceGroup[j].body => i = j
       /\ DynamicBodies(Core) = DieBodyIds
       /\ \A k, l \in 1..Len(worldBodies) : worldBodies[k] = worldBodies[l] => k = l
       /\ SeqRange(diceBodies) = DieBodyIds /\ Len(diceBodies) = numDice

\* a rebuild with physics that changed the die count from the initial one
C5_Witness ==
  /\ lastOp.op = "rebuild"
  /\ world
  /\ numDice # DefaultNumDice
  /\ Cardinality(DynamicBodies(Core)) = numDice

\* what the walls of the arena are
WallView(S) == [k \in 1..Len(S.arenaBodies) |-> S.body[S.arenaBodies[k]]]

\* die count, mesh positions and rotations, whether each die has a body
\* and its sleep state, arena walls, camera
StableView(S) ==
  [numDice |-> S.numDice,
   dice |-> [i \in 1..Len(S.diceGroup) |->
               [pos |-> S.diceGroup[i].pos, rot |-> S.diceGroup[i].rot,
                sleep |-> IF S.diceGroup[i].body = NoBody THEN "none"
                          ELSE S.body[S.diceGroup[i].body].sleep]],
   walls |-> WallView(S),
   camera |-> S.camera]

\* StableView and each die body's position, velocity and angular velocity
FullView(S) ==
  [stable |-> StableView(S),
   motion |-> [i \in 1..Len(S.diceGroup) |->
                 IF S.diceGroup[i].body = NoBody THEN <<>>
                 ELSE LET b == S.body[S.diceGroup[i].body]
                      IN  <<b.pos, b.vel, b.angVel>>]]

\* C6 as stated: right after a rebuild, a second rebuild with the same
\* configuration leaves die count, die positions and rotations, die body
\* positions, velocities and sleep state, walls and camera as they are
C6_RebuildIdempotent ==
  lastOp.op = "rebuild" =>
    \A seed \in Seeds : FullView(rebuildDice(Core, seed)) = FullView(Core)

\* C6 amended: right after a rebuild, a second rebuild with the same
\* configuration leaves die count, die mesh positions and rotations, the
\* sleep state of the die bodies, the arena walls and the camera as they
\* are; the body positions and velocities are drawn again
C6_RebuildIdempotentButDrop ==
  lastOp.op = "rebuild" =>
    \A seed \in Seeds : StableView(rebuildDice(Core, seed)) = StableView(Core)

\* a rebuild with physics available, where the dice are dropped
C6_Witness ==
  /\ lastOp.op = "rebuild"
  /\ world
  /\ \E seed \in Seeds : FullView(rebuildDice(Core, seed)) # FullView(Core)

\* every die at its layout position at rest height with zero rotation, and
\* its body there too, motionless, unrotated and asleep
NeutralPose ==
  \A i \in 1..Len(diceGroup) :
    LET mesh == diceGroup[i] IN
    /\ mesh.pos = LayoutPos(Len(diceGroup), rollMode, i)
    /\ mesh.pos[2] = Num(RestHeight)
    /\ mesh.rot = ZeroEuler
    /\ mesh.body # NoBody =>
         /\ body[mesh.body].pos = mesh.pos
         /\ body[mesh.body].vel = NumVec(0, 0, 0)
         /\ body[mesh.body].angVel = NumVec(0, 0, 0)
         /\ body[mesh.body].quat = IdentityQuat
         /\ body[mesh.body].sleep = "sleeping"

\* the identities of the meshes and of their bodies
DieSet == [i \in 1..Len(diceGroup) |-> <<diceGroup[i].id, diceGroup[i].body>>]

\* C7: right after setMode every die is in the neutral pose of the new
\* mode and its body rests there asleep, and the set of dice and bodies is
\* the one before the call
C7_SetModeNeutral ==
  [][lastOp'.op = "setMode" =>
       /\ NeutralPose'
       /\ DieSet' = DieSet
       /\ UNCHANGED <<numDice, diceBodies, worldBodies>>]_vars

\* setMode after the physics has moved the dice
C7_Witness ==
  /\ lastOp.op = "setMode"
  /\ world /\ ticked
  /\ NeutralPose
  /\ rollMode = "spin"

\* the state of the bodies the dice own
DieBodyState == [id \in DieBodyIds |-> body[id]]

\* C8: onResize changes neither the die meshes, their positions and
\* rotations, nor the die bodies and their state, the roll mode or the
\* spinning flag
C8_ResizeKeepsDice ==
  [][lastOp'.op = "resize" =>
       /\ UNCHANGED <<diceGroup, diceBodies, numDice, rollMode, isRowSpinning>>
       /\ DieBodyState' = DieBodyState]_vars

\* a resize while a spin is turning the dice
C8_Witness ==
  /\ lastOp.op = "resize"
  /\ isRowSpinning
  /\ raf # <<>>
  /\ \E i \in 1..Len(diceGroup) : diceGroup[i].rot # ZeroEuler

\* C9: after onResize, onResize again with the same dimensions leaves the
\* camera as it is
C9_ResizeIdempotent ==
  lastOp.op = "resize" =>
    onResize(Core, <<lastOp.a, lastOp.b>>).camera = camera

\* a resize to a portrait viewport with a single die
C9_Witness ==
  /\ lastOp.op = "resize"
  /\ camera.aspect = <<3, 4>>
  /\ numDice = 1

----------------------------------------------------------------------------
(* Layout, under SpecLayout *)

DieSize == 1000

Dist(a, b) == IF a >= b THEN a - b ELSE b - a

\* two dice of unit size do not overlap: their centres are at least one
\* edge apart along x or along z
Apart(p, q) == Dist(p[1].a, q[1].a) >= DieSize \/ Dist(p[3].a, q[3].a) >= DieSize

\* C10: for every die count and in both modes, the layout gives as many
\* positions as there are dice, and any two of them are at least one die
\* edge apart along some axis
C10_LayoutDistinct ==
  /\ Len(diceGroup) = numDice
  /\ \A i \in 1..Len(diceGroup) :
       /\ diceGroup[i].pos[1].b = 0 /\ diceGroup[i].pos[3].b = 0
       /\ diceGroup[i].pos[1].k = "aff" /\ diceGroup[i].pos[3].k = "aff"
  /\ \A i, j \in 1..Len(diceGroup) :
       i # j => Apart(diceGroup[i].pos, diceGroup[j].pos)

\* ten dice laid out on the grid
C10_Witness ==
  /\ numDice = NumDiceMax
  /\ rollMode = "physics"
  /\ Len(diceGroup) = NumDiceMax
  /\ diceGroup[NumDiceMax].pos[3].a > diceGroup[1].pos[3].a

\* C11: over the die counts 1..10 the arena's width and depth do not shrink
\* when the die count does not: a step that takes the count from n to
\* m >= n takes computeArenaSize to a width and a depth at least as large
C11_ArenaMonotone ==
  [][numDice' >= numDice =>
       /\ computeArenaSize(Core)'.width >= computeArenaSize(Core).width
       /\ computeArenaSize(Core)'.depth >= computeArenaSize(Core).depth]_vars

\* ten dice: four columns and three rows
C11_Witness ==
  /\ lastOp.op = "rebuild"
  /\ numDice = NumDiceMax
  /\ computeArenaSize(Core) = [width |-> 3 * spacing + 2000, depth |-> 2 * spacing + 2000]

\* the x and z coordinates of the die meshes, in thousandths
MeshXZ == [i \in 1..Len(diceGroup) |-> <<diceGroup[i].pos[1], diceGroup[i].pos[3]>>]

\* C12: in spin mode, right after a rebuild with n dice, die i (counted from
\* 0) is at x = -(n-1)*0.6 + 1.2*i and z = 0; with three dice the x
\* coordinates are -1.2, 0 and 1.2
C12_SpinRowCentred ==
  (lastOp.op = "rebuild" /\ rollMode = "spin") =>
    /\ Len(diceGroup) = numDice
    /\ \A i \in 1..numDice :
         MeshXZ[i] = <<Num(1200 * (i - 1) - 600 * (numDice - 1)), Num(0)>>
    /\ numDice = 3 =>
         MeshXZ = << <<Num(-1200), Num(0)>>, <<Num(0), Num(0)>>, <<Num(1200), Num(0)>> >>

\* three dice rebuilt in spin mode
C12_Witness ==
  /\ lastOp.op = "rebuild"
  /\ rollMode = "spin"
  /\ numDice = 3
  /\ MeshXZ[1] = <<Num(-1200), Num(0)>>
  /\ MeshXZ[3] = <<Num(1200), Num(0)>>

----------------------------------------------------------------------------
(* Settings, under SpecSettings *)

\* the values on the six material slots of a die, in slot order
FaceValues(mesh) == [k \in 1..Len(mesh.faces) |-> mesh.faces[k].value]

\* C13: every die has six face materials, carrying 1, 6, 2, 5, 3, 4 on +x,
\* -x, +y, -y, +z, -z, so that the two faces of each axis sum to 7, whatever
\* the colours and however often the dice were rebuilt
C13_OppositeFacesSumToSeven ==
  \A i \in 1..Len(diceGroup) :
    /\ FaceValues(diceGroup[i]) = <<1, 6, 2, 5, 3, 4>>
    /\ \A axis \in 1..3 :
         diceGroup[i].faces[2 * axis - 1].value + diceGroup[i].faces[2 * axis].value = 7

\* dice rebuilt in colours other than the default ones
C13_Witness ==
  /\ Len(diceGroup) >= 3
  /\ lastOp.op = "pipColor"
  /\ \A i \in 1..Len(diceGroup) :
       \A k \in 1..6 : /\ diceGroup[i].faces[k].dice = "#ff0000"
                        /\ diceGroup[i].faces[k].pip = "#ffffff"

\* C16: the die count the dice are built from is an integer in 1..10 in
\* every state the settings operations and the stored record lead to
C16_DieCountClamped ==
  /\ numDice \in 1..NumDiceMax
  /\ Len(diceGroup) = numDice

----------------------------------------------------------------------------
(* The orientation resolver, under SpecFace *)

\* a vector turned by k quarter turns about x, y, z (right-handed)
TurnX(k, v) ==
  CASE k % 4 = 0 -> v
    [] k % 4 = 1 -> <<v[1], 0 - v[3], v[2]>>
    [] k % 4 = 2 -> <<v[1], 0 - v[2], 0 - v[3]>>
    [] k % 4 = 3 -> <<v[1], v[3], 0 - v[2]>>

TurnY(k, v) ==
  CASE k % 4 = 0 -> v
    [] k % 4 = 1 -> <<v[3], v[2], 0 - v[1]>>
    [] k % 4 = 2 -> <<0 - v[1], v[2], 0 - v[3]>>
    [] k % 4 = 3 -> <<0 - v[3], v[2], v[1]>>

TurnZ(k, v) ==
  CASE k % 4 = 0 -> v
    [] k % 4 = 1 -> <<0 - v[2], v[1], v[3]>>
    [] k % 4 = 2 -> <<0 - v[1], 0 - v[2], v[3]>>
    [] k % 4 = 3 -> <<v[2], 0 - v[1], v[3]>>

\* where an Euler rotation of order XYZ (whole quarter turns) takes v
Turned(rot, v) == TurnX(rot.x.w, TurnY(rot.y.w, TurnZ(rot.z.w, v)))

\* the direction of material slot k of a box: +x, -x, +y, -y, +z, -z
SlotNormal(k) ==
  << << 1, 0, 0 >>, << -1, 0, 0 >>, << 0, 1, 0 >>, << 0, -1, 0 >>,
     << 0, 0, 1 >>, << 0, 0, -1 >> >>[k]

\* the direction of the face of a die that carries value v
FaceNormal(mesh, v) ==
  SlotNormal(CHOOSE k \in 1..Len(mesh.faces) : mesh.faces[k].value = v)

\* the die setDieToFace was last called on, and the value it was given
FaceDie == diceGroup[lastOp.a]
FaceArg == FaceInputs[lastOp.b]

\* C14: for a face value v in 1..6 the rotation set by setDieToFace takes
\* the direction of the face carrying v to +Y, and it is the identity for
\* 2, +90 and -90 degrees about z for 1 and 6, -90 and +90 degrees about x
\* for 3 and 4, and 180 degrees about x for 5
C14_FaceTurnedUp ==
  (lastOp.op = "setDieToFace" /\ FaceArg.t = "number" /\ FaceArg.n \in 1..6) =>
    /\ \A c \in {"x", "y", "z"} : FaceDie.rot[c].o = "none" /\ FaceDie.rot[c].f = {}
    /\ Turned(FaceDie.rot, FaceNormal(FaceDie, FaceArg.n)) = <<0, 1, 0>>
    /\ <<FaceDie.rot.x.w, FaceDie.rot.y.w, FaceDie.rot.z.w>> =
         CASE FaceArg.n = 1 -> <<0, 0, 1>>
           [] FaceArg.n = 2 -> <<0, 0, 0>>
           [] FaceArg.n = 3 -> <<-1, 0, 0>>
           [] FaceArg.n = 4 -> <<1, 0, 0>>
           [] FaceArg.n = 5 -> <<2, 0, 0>>
           [] FaceArg.n = 6 -> <<0, 0, -1>>

\* setDieToFace(mesh, 4) has turned the -z face up
C14_Witness ==
  /\ lastOp.op = "setDieToFace"
  /\ FaceArg = JsNumber(4)
  /\ Turned(FaceDie.rot, <<0, 0, -1>>) = <<0, 1, 0>>

\* C15: for a face value outside 1..6, numbers and non-numbers alike,
\* setDieToFace leaves the die with the identity rotation
C15_FallbackIdentity ==
  (lastOp.op = "setDieToFace" /\ ~(FaceArg.t = "number" /\ FaceArg.n \in 1..6)) =>
    FaceDie.rot = ZeroEuler

----------------------------------------------------------------------------
(* easeOutCubic, under SpecEase *)

EaseUnit == EaseSteps * EaseSteps * EaseSteps

\* C17: easeOutCubic is 0 at 0 and below, 1 at 1 and above, equal to
\* 1 - (1 - t)^3 in between, and of two arguments the larger never gets
\* the smaller result
C17_EaseOutCubic ==
  [][lastOp'.op = "ease" =>
       LET a == lastOp'.a
           e == lastOp'.b
           r == EaseSteps - a
       IN  /\ a <= 0 => e = 0
           /\ a >= EaseSteps => e = EaseUnit
           /\ (0 <= a /\ a <= EaseSteps) => e = EaseUnit - r * r * r
           /\ 0 <= e /\ e <= EaseUnit
           /\ (lastOp.op = "ease" /\ lastOp.a <= a) => lastOp.b <= e]_vars

\* easeOutCubic(1/2) = 7/8
C17_Witness ==
  /\ lastOp.op = "ease"
  /\ 2 * lastOp.a = EaseSteps
  /\ 8 * lastOp.b = 7 * EaseUnit

----------------------------------------------------------------------------
(* The spin lifecycle, under SpecSpin *)

\* every axis of every die of the session has reached progress 1 at elapsed
AllAtRest(cb, elapsed) ==
  \A i \in 1..Len(cb.base) : elapsed >= cb.dx[i] /\ elapsed >= cb.dy[i]

\* C18: a roll from Idle starts Spinning (flag set, one callback scheduled);
\* a frame in which some axis of some die is below progress 1 leaves the
\* controller Spinning, and the first frame in which every axis of every
\* die has reached progress 1 takes it to Idle (flag clear, nothing
\* scheduled)
C18_IdleExactlyWhenDone ==
  [][/\ lastOp'.op = "roll" => (isRowSpinning' /\ Len(raf') = 1)
     /\ (lastOp'.op = "frame" /\ Len(raf) = 1) =>
          IF AllAtRest(raf[1], raf[1].elapsed + 1)
            THEN raf' = <<>> /\ ~isRowSpinning'
            ELSE /\ isRowSpinning'
                 /\ Len(raf') = 1
                 /\ raf'[1] = [raf[1] EXCEPT !.elapsed = @ + 1]
     /\ (lastOp'.op = "frame" /\ raf = <<>>) => (raf' = <<>> /\ ~isRowSpinning')]_vars

\* still Spinning with one die at rest on both axes and another turning
C18_Witness ==
  /\ lastOp.op = "frame"
  /\ isRowSpinning
  /\ Len(raf) = 1
  /\ \E i, j \in 1..Len(raf[1].base) :
       /\ raf[1].elapsed >= raf[1].dx[i] /\ raf[1].elapsed >= raf[1].dy[i]
       /\ raf[1].elapsed >= raf[1].dx[j] /\ raf[1].elapsed < raf[1].dy[j]

----------------------------------------------------------------------------
(* The draws of a spin roll, under SpecDraw *)

\* C19: every quarter-turn count a spin roll draws is an integer in 4..14
\* and every duration an integer in 800..1200
C19_DrawRanges ==
  \A k \in 1..Len(raf) :
    raf[k].kind = "spin" =>
      \A i \in 1..Len(raf[k].base) :
        /\ raf[k].qx[i] \in 4..14 /\ raf[k].qy[i] \in 4..14
        /\ raf[k].dx[i] \in 800..1200 /\ raf[k].dy[i] \in 800..1200

----------------------------------------------------------------------------
(* The physics roll, under SpecOps *)

\* a value a + b * r with r in [0, 1] lies between lo and hi
AffWithin(v, lo, hi) ==
  /\ v.k = "aff"
  /\ v.b >= 0
  /\ lo <= v.a
  /\ v.a + v.b <= hi

\* C20: a roll in physics mode with the engine available leaves every
\* die's body awake, within 0.3 of its grid slot in x and in z and at a
\* height in [6, 9]; it schedules no callback and changes neither the
\* spinning flag nor any mesh
C20_PhysicsDrop ==
  [][(lastOp'.op = "roll" /\ rollMode = "physics" /\ world) =>
       /\ \A i \in 1..Len(diceGroup) :
            LET b == body'[diceGroup[i].body]
                slot == LayoutPos(Len(diceGroup), "physics", i)
            IN  /\ diceGroup[i].body # NoBody
                /\ b.sleep = "awake"
                /\ AffWithin(b.pos[1], slot[1].a - 300, slot[1].a + 300)
                /\ AffWithin(b.pos[3], slot[3].a - 300, slot[3].a + 300)
                /\ AffWithin(b.pos[2], 6000, 9000)
       /\ UNCHANGED <<raf, isRowSpinning, diceGroup>>]_vars

\* a physics roll that woke bodies the engine had put to sleep: the meshes
\* still show the pose the bodies had come to rest in
C20_Witness ==
  /\ lastOp.op = "roll"
  /\ rollMode = "physics"
  /\ world
  /\ raf = <<>>
  /\ \A i \in 1..Len(diceGroup) :
       /\ body[diceGroup[i].body].sleep = "awake"
       /\ body[diceGroup[i].body].pos[2].k = "aff"
       /\ diceGroup[i].pos[2] = SimNum

----------------------------------------------------------------------------
(* The arena walls, under SpecOps *)

\* the static bodies of the world other than the ground plane
StaticWalls == {id \in SeqRange(worldBodies) \ {GroundId} : body[id].mass = 0}

\* the number of times id occurs in the world's list of bodies
TimesInWorld(id) == Cardinality({k \in 1..Len(worldBodies) : worldBodies[k] = id})

\* C21: with physics available the world holds exactly four static wall
\* bodies, the ones in arenaBodies: one pair at +/- the same offset in z and
\* one pair at +/- the same offset in x, the offsets and the half extents
\* taken from the arena size of the current die count; no other wall is left
C21_FourWalls ==
  world =>
    LET count == Len(diceGroup)
        perRow == CeilSqrt(count)
        rows == CeilDiv(count, perRow)
        halfW == ((perRow - 1) * 1200 + 2000) \div 2 + 1500
        halfD == ((rows - 1) * 1200 + 2000) \div 2 + 1500
        placed == {<<body[id].pos, body[id].he>> : id \in StaticWalls}
    IN  /\ Len(arenaBodies) = 4
        /\ SeqRange(arenaBodies) = StaticWalls
        /\ Cardinality(StaticWalls) = 4
        /\ \A id \in StaticWalls : TimesInWorld(id) = 1
        /\ placed = { <<NumVec(0, 1750, halfD + 150), <<halfW, 1750, 150>>>>,
                      <<NumVec(0, 1750, 0 - (halfD + 150)), <<halfW, 1750, 150>>>>,
                      <<NumVec(halfW + 150, 1750, 0), <<150, 1750, halfD>>>>,
                      <<NumVec(0 - (halfW + 150), 1750, 0), <<150, 1750, halfD>>>> }

\* a roll in an arena rebuilt for a die count other than the initial one,
\* after a resize: the walls have been replaced at least twice
C21_Witness ==
  /\ world
  /\ lastOp.op = "roll"
  /\ rollMode = "physics"
  /\ numDice # DefaultNumDice
  /\ camera.aspect # <<4, 3>>
  /\ \A k \in 1..Len(arenaBodies) : arenaBodies[k][2] > 1

----------------------------------------------------------------------------
(* The camera, under SpecLayout *)

\* the camera position that frames count dice at aspect aw / ah, in units of
\* 1 / tan(fov / 2): the larger of max(width, depth) / 2 and
\* (width / 2) / aspect, times 1.2, gives needed; the position is
\* (needed * 1.1 * 0.7, needed * 0.9, needed * 1.1)
ExpectedCamera(count, aw, ah) ==
  LET perRow == CeilSqrt(count)
      rows == CeilDiv(count, perRow)
      width == (perRow - 1) * 1200 + 2000
      depth == (rows - 1) * 1200 + 2000
      fit == Max(Max(width, depth) * aw, width * ah)     \* times 2 * aw
  IN  << Frac(fit * 924, 2 * aw * 1000),
         Frac(fit * 1080, 2 * aw * 1000),
         Frac(fit * 1320, 2 * aw * 1000) >>

\* C22: the camera is where the framing of the current die count and the
\* current aspect puts it
C22_CameraFramesCurrent ==
  camera.position = ExpectedCamera(Len(diceGroup), camera.aspect[1], camera.aspect[2])

\* a rebuild to ten dice and a resize to the portrait viewport, in either
\* order, from the initial two dice
C22_Witness ==
  /\ lastOp.op \in {"rebuild", "resize"}
  /\ numDice = NumDiceMax
  /\ Len(diceGroup) = NumDiceMax
  /\ camera.aspect = <<3, 4>>
  /\ camera.position # ExpectedCamera(DefaultNumDice, 3, 4)
  /\ camera.position # ExpectedCamera(NumDiceMax, 4, 3)

----------------------------------------------------------------------------
(* The kinematic fallback, under SpecFallback *)

\* the least whole time that is at least 1200 + 800 * (n / M28); the
\* product 800 * n is a multiple of M28 only when n is a multiple of M28 / 5
DurationReached(n) ==
  1200 + FloorScale(n, 800) + (IF n % (M28 \div 5) = 0 THEN 0 ELSE 1)

\* no rigid body exists and no die refers to one
NoRigidBody ==
  /\ DOMAIN body = {}
  /\ worldBodies = <<>> /\ diceBodies = <<>> /\ arenaBodies = <<>>
  /\ \A i \in 1..Len(diceGroup) : diceGroup[i].body = NoBody

\* C23: without the physics engine nothing throws and no rigid body is
\* created or referred to; a roll in physics mode schedules one animate
\* callback whose duration is drawn in [1200, 2000] and leaves the spinning
\* flag alone; at each frame the callback is scheduled again exactly when
\* the time since the roll is below the drawn duration
C23_FallbackRuns ==
  [][/\ ~fault' /\ NoRigidBody'
     /\ lastOp'.op = "roll" =>
          /\ Len(raf') = 1
          /\ raf'[1].kind = "anim" /\ raf'[1].elapsed = 0
          /\ raf'[1].dur \in 0..M28
          /\ DurationReached(raf'[1].dur) \in 1200..2000
          /\ isRowSpinning' = isRowSpinning
     /\ (lastOp'.op = "frame" /\ raf # <<>>) =>
          LET now == raf[1].elapsed + lastOp'.a
          IN  IF now >= DurationReached(raf[1].dur)
                THEN raf' = <<>>
                ELSE raf' = <<[raf[1] EXCEPT !.elapsed = now]>>
     /\ (lastOp'.op = "frame" /\ raf = <<>>) => raf' = <<>>]_vars

\* the frame in which the animation stopped: the dice are back at rest
\* height with the rotation the animation left them
C23_Witness ==
  /\ ~world
  /\ rollMode = "physics"
  /\ lastOp.op = "frame"
  /\ raf = <<>>
  /\ \E i \in 1..Len(diceGroup) :
       /\ diceGroup[i].rot.x = AnimRot
       /\ diceGroup[i].pos[2] = Num(RestHeight)

----------------------------------------------------------------------------
(* The generator, under SpecRng *)

\* the four bytes of a state <<hi, lo>>, lowest first
BytesOf(s) == <<s[2] % 256, s[2] \div 256, s[1] % 256, s[1] \div 256>>

\* (s * 1664525 + 1013904223) mod 2^32 by long multiplication in base 256:
\* 1664525 is 0x19660D and 1013904223 is 0x3C6EF35F
LcgStep(s) ==
  LET b == BytesOf(s)
      c0 == b[1] * 13 + 95
      c1 == b[1] * 102 + b[2] * 13 + 243 + (c0 \div 256)
      c2 == b[1] * 25 + b[2] * 102 + b[3] * 13 + 110 + (c1 \div 256)
      c3 == b[2] * 25 + b[3] * 102 + b[4] * 13 + 60 + (c2 \div 256)
  IN  <<(c3 % 256) * 256 + (c2 % 256), (c1 % 256) * 256 + (c0 % 256)>>

\* s & 0xfffffff from the bytes of s
Low28(s) ==
  LET b == BytesOf(s)
  IN  (b[4] % 16) * 16777216 + b[3] * 65536 + b[2] * 256 + b[1]

\* C24: a call takes the state s of its generator to
\* (s * 1664525 + 1013904223) mod 2^32, which lies in [0, 2^32), and returns
\* the low 28 bits of the new state over 0xfffffff, a value in [0, 1]; two
\* generators made from the same seed have returned the same values as far
\* as both have been called
C24_LcgStream ==
  [][/\ lastOp'.op = "rng" =>
          LET g == lastOp'.a
              before == generators[g]
              after == generators'[g]
          IN  /\ after.s = LcgStep(before.s)
              /\ after.s[1] \in 0..65535 /\ after.s[2] \in 0..65535
              /\ after.out = Append(before.out, Low28(after.s))
              /\ Low28(after.s) \in 0..M28
              /\ \A h \in 1..Len(generators) : h # g => generators'[h] = generators[h]
     /\ \A g, h \in 1..Len(generators') :
          generators'[g].from = generators'[h].from =>
            \A k \in 1..Min(Len(generators'[g].out), Len(generators'[h].out)) :
              generators'[g].out[k] = generators'[h].out[k]]_vars

\* two generators made from the same seed, called alternately, the second
\* made after the first had been called; they have returned M28 / M28 = 1
C24_Witness ==
  /\ Len(generators) = 2
  /\ lastOp.op = "rng"
  /\ generators[1].from = generators[2].from
  /\ Len(generators[1].out) = MaxDraws
  /\ Len(generators[2].out) = MaxDraws
  /\ generators[1].out[1] = M28
  /\ generators[1].s[1] >= 32768

----------------------------------------------------------------------------
(* The spinning flag, under Spec *)

\* C25: isRowSpinning is true exactly when a spin callback is scheduled
C25_FlagMatchesPending == isRowSpinning <=> Pending("spin") # <<>>

----------------------------------------------------------------------------
(* A mode change during a spin, under SpecOps *)

\* C26: in the frame that follows a setMode made while a spin callback is
\* scheduled, every die still has zero rotation
C26_NeutralPosePersists ==
  [][(lastOp.op = "setMode" /\ Pending("spin") # <<>> /\ lastOp'.op = "frame") =>
       \A i \in 1..Len(diceGroup') : diceGroup'[i].rot = ZeroEuler]_vars

----------------------------------------------------------------------------
(* The row of spin mode and the footprint, under SpecLayout *)

\* C27: in spin mode every die, a cube of side 1 about its position, lies
\* within the width x depth rectangle about the origin that
\* computeArenaSize and positionCamera compute for the die count
C27_RowWithinFootprint ==
  rollMode = "spin" =>
    LET a == computeArenaSize(Core)
    IN  \A i \in 1..Len(diceGroup) :
          LET p == diceGroup[i].pos
          IN  /\ p[1].k = "aff" /\ p[1].b = 0 /\ p[3].k = "aff" /\ p[3].b = 0
              /\ 2 * (p[1].a + DieSize \div 2) <= a.width
              /\ 2 * (p[1].a - DieSize \div 2) >= 0 - a.width
              /\ 2 * (p[3].a + DieSize \div 2) <= a.depth
              /\ 2 * (p[3].a - DieSize \div 2) >= 0 - a.depth

----------------------------------------------------------------------------
(* The drop and the walls, under SpecDrop *)

\* the faces of the four walls that look at the origin: arenaBodies holds
\* the +Z, -Z, +X and -X wall in this order
InnerFaces(S) ==
  LET w(k) == S.body[S.arenaBodies[k]]
  IN  [zmax |-> w(1).pos[3].a - w(1).he[3], zmin |-> w(2).pos[3].a + w(2).he[3],
       xmax |-> w(3).pos[1].a - w(3).he[1], xmin |-> w(4).pos[1].a + w(4).he[1]]

\* a value a + b * r with r in [0, 1], widened by he on both sides, lies
\* strictly between lo and hi
BoxBetween(v, he, lo, hi) ==
  /\ v.k = "aff"
  /\ v.b >= 0
  /\ lo < v.a - he
  /\ v.a + v.b + he < hi

\* C28: the position a physics roll gives a die body keeps its collision
\* box, in x and in z, strictly between the inner faces of the walls
C28_DropInsideWalls ==
  [][(lastOp'.op = "roll" /\ rollMode' = "physics" /\ world) =>
       LET S == [body |-> body', arenaBodies |-> arenaBodies']
           f == InnerFaces(S)
       IN  /\ Len(arenaBodies') = 4
           /\ \A i \in 1..Len(diceGroup') :
                LET b == body'[diceGroup'[i].body]
                IN  /\ BoxBetween(b.pos[1], b.he[1], f.xmin, f.xmax)
                    /\ BoxBetween(b.pos[3], b.he[3], f.zmin, f.zmax)]_vars

\* a physics roll of ten dice in which the first value drawn is 1: the
\* first die is dropped 0.3 to the right of its slot
C28_Witness ==
  /\ lastOp.op = "roll"
  /\ world
  /\ rollMode = "physics"
  /\ Len(diceGroup) = NumDiceMax
  /\ body[diceGroup[1].body].pos[1] =
       Num(LayoutPos(NumDiceMax, "physics", 1)[1].a + 300)

====
